---- MODULE Spec2Model ----
(***************************************************************************)
(* PickupItem (internal/action/step/pickup_item.go): the spiral search and *)
(* click loop that picks an item up from the ground.                       *)
(*                                                                         *)
(* One invocation of PickupItem is modelled.  The world snapshot ctx.Data, *)
(* the pointer device ctx.HID and the wall clock are the environment: the  *)
(* snapshot is replaced at every RefreshGameData call and may be replaced  *)
(* by the host's background refresh while the loop sleeps after a click;   *)
(* the pointer may land beside its target; PauseIfNotPriority may block.   *)
(* Times are in milliseconds.                                              *)
(***************************************************************************)
EXTENDS Integers, Sequences, FiniteSets, TLC

VARIABLES
    pc,                     \* position of the invocation in PickupItem
    result,                 \* the returned error ("none" while running, "nil" for success)
    failedAttempts,         \* the %d of the "failed to pick up" error (-1 when not returned)
    now,                    \* wall clock, time.Now()
    Data,                   \* ctx.Data, the current world snapshot
    cursor,                 \* what ctx.HID.GetCursorPosition reports
    it,                     \* the argument of PickupItem
    startTime,
    waitingForInteraction,
    spiralAttempt,
    lastMonsterCheck,
    initialPlayerPos,
    base,                   \* baseX, baseY
    baseScreen,             \* baseScreenX, baseScreenY
    currentItem,            \* the item value returned by the lookup of line 59
    targetCursor,           \* targetCursorX, targetCursorY
    clickAttempt,
    calls,                  \* the collaborator calls made so far in the current iteration
    moves,                  \* MovePointer calls made so far in the invocation
    clicks,                 \* Click calls made so far in the invocation
    env                     \* what the environment has done, and may do, in this invocation

vars == <<pc, result, failedAttempts, now, Data, cursor, it, startTime,
          waitingForInteraction, spiralAttempt, lastMonsterCheck,
          initialPlayerPos, base, baseScreen, currentItem, targetCursor,
          clickAttempt, calls, moves, clicks, env>>

----------------------------------------------------------------------------
(* Program constants, lines 19-24 and 39.                                  *)

Millisecond == 1
Second == 1000 * Millisecond

maxInteractions == 30
spiralDelay == 50 * Millisecond
clickDelay == 100 * Millisecond
pickupTimeout == 8 * Second
monsterCheckInterval == Second
settleDelay == 50 * Millisecond       \* the literal of line 96
maxClickAttempts == 3
cursorTolerance == 5
monsterRadius == 4

ErrMonsterAroundItem == "monsters detected around item"
ErrCastingMoving == "char casting or moving"
ErrItemTooFar == "item is too far away"
ErrFailedToPickUp == "failed to pick up"

Zero == -1      \* the zero time.Time: no instant of the clock

----------------------------------------------------------------------------
(* Bounds of the model.                                                    *)

MaxEvents == 1      \* what the environment does in one invocation besides answering as before

PauseBlock == pickupTimeout \div 2 + spiralDelay   \* how long a blocking pause lasts
ClockEnd == pickupTimeout + PauseBlock + Second    \* the clock is followed up to here

----------------------------------------------------------------------------
(* The world the snapshot is drawn from.                                   *)

Pos(x, y) == [X |-> x, Y |-> y]

PlayerPositions == {Pos(0, 0), Pos(1, 0)}
ItemPositions == {Pos(2, 0), Pos(11, 0)}
Idle == "Stand"
BusyModes == {"CastingSkill", "Walking", "Running", "WalkingInTown"}
Modes == {Idle} \cup BusyModes

TargetID == 1
Decoy == [UnitID |-> 2, Position |-> Pos(3, 1), IsHovered |-> FALSE]
Target(p, h) == [UnitID |-> TargetID, Position |-> p, IsHovered |-> h]
(* The ground-item collection: another item always lies there, the target  *)
(* lies there or not.                                                      *)
GroundSets ==
    {{Decoy}} \cup {{Decoy, Target(p, h)} : p \in ItemPositions, h \in BOOLEAN}

Monster(life, p) == [Life |-> life, Position |-> p]
(* Enemies(): a live monster at distance 4 of the first item position and *)
(* 5 of the second, a corpse beside the first, a live one far from both,   *)
(* a corpse beside the first with a live one at distance 5 of it.          *)
Near == {Monster(5, Pos(6, 0))}
MonsterSets == {{}, Near}
AllMonsterSets ==
    MonsterSets \cup {{Monster(0, Pos(3, 0))}, {Monster(5, Pos(20, 0))},
                      {Monster(-1, Pos(2, 1)), Monster(5, Pos(7, 0))}}

Snapshots(modes, monsters) ==
    [PlayerPos : PlayerPositions, Mode : modes, Ground : GroundSets,
     Monsters : monsters]

(* The target as a snapshot has it.                                        *)
TargetIn(data) == {i \in data.Ground : i.UnitID = TargetID}
OnGround(data) == TargetIn(data) # {}
Hovered(data) == \E i \in TargetIn(data) : i.IsHovered
Moved(was, is) == \E i \in TargetIn(was), j \in TargetIn(is) : i.Position # j.Position
Flipped(was, is) == Hovered(was) # Hovered(is)

NoItem == [UnitID |-> 0, Position |-> Pos(0, 0), IsHovered |-> FALSE]   \* data.Item{}

----------------------------------------------------------------------------
(* The collaborators PickupItem calls.                                     *)

abs(x) == IF x < 0 THEN -x ELSE x

RECURSIVE ISqrtFrom(_, _)
ISqrtFrom(n, r) == IF (r + 1) * (r + 1) > n THEN r ELSE ISqrtFrom(n, r + 1)

(* pather.DistanceFromPoint: the Euclidean distance, truncated.            *)
DistanceFromPoint(a, b) ==
    ISqrtFrom((a.X - b.X) * (a.X - b.X) + (a.Y - b.Y) * (a.Y - b.Y), 0)

(* ctx.PathFinder.GameCoordsToScreenCords: the isometric projection of a   *)
(* game position, relative to the player position of the snapshot.         *)
GameCoordsToScreenCords(data, x, y) ==
    LET relX == x - data.PlayerPos.X
        relY == y - data.PlayerPos.Y
    IN  Pos(640 + 20 * (relX - relY), 360 + 10 * (relX + relY))

(* utils.ItemSpiral: the probe offset of a step, arm by arm and ring by    *)
(* ring around the anchor.                                                 *)
ItemSpiral(i) ==
    LET ring == (i + 3) \div 4
        arm == i % 4
    IN  IF i = 0 THEN Pos(0, 0)
        ELSE IF arm = 1 THEN Pos(3 * ring, 0)
        ELSE IF arm = 2 THEN Pos(0, 3 * ring)
        ELSE IF arm = 3 THEN Pos(-3 * ring, 0)
        ELSE Pos(0, -3 * ring)

----------------------------------------------------------------------------
(* The helpers of pickup_item.go.                                          *)

(* A variant of findItemOnGround that takes the first item it meets.       *)
findAnyItemOnGround(data, targetID) ==
    IF data.Ground # {}
    THEN [item |-> CHOOSE i \in data.Ground : \A j \in data.Ground : i.UnitID >= j.UnitID,
          exists |-> TRUE]
    ELSE [item |-> NoItem, exists |-> FALSE]

(* findItemOnGround, lines 178-187.                                        *)
findItemOnGround(data, targetID) ==
    IF \E i \in data.Ground : i.UnitID = targetID
    THEN [item |-> CHOOSE i \in data.Ground : i.UnitID = targetID, exists |-> TRUE]
    ELSE [item |-> NoItem, exists |-> FALSE]

(* A variant of hasHostileMonstersNearby that does not look at the life.   *)
hasAnyMonsterNearby(data, pos) ==
    \E monster \in data.Monsters :
        DistanceFromPoint(pos, monster.Position) <= monsterRadius

(* hasHostileMonstersNearby, lines 167-176.                                *)
hasHostileMonstersNearby(data, pos) ==
    \E monster \in data.Monsters :
        monster.Life > 0 /\ DistanceFromPoint(pos, monster.Position) <= monsterRadius

(* A variant of verifyPickupConditions that leaves the position test out.  *)
verifyIgnoringPosition(data, item, initialPos) ==
    LET found == findItemOnGround(data, item.UnitID)
    IN  /\ initialPos = data.PlayerPos
        /\ found.exists
        /\ found.item.IsHovered

(* verifyPickupConditions, lines 139-157.                                  *)
verifyPickupConditions(data, item, initialPos) ==
    LET found == findItemOnGround(data, item.UnitID)
    IN  /\ initialPos = data.PlayerPos
        /\ found.exists
        /\ found.item.IsHovered
        /\ found.item.Position = item.Position

(* time.Since.                                                             *)
Since(t) == now - t

(* Variants of the condition of lines 75-77: the ceiling tested with >=,   *)
(* the two clocks left out, the elapsed time tested with >=.               *)
LimitReachedAtCeiling ==
    \/ spiralAttempt >= maxInteractions
    \/ (waitingForInteraction # Zero /\ Since(waitingForInteraction) > pickupTimeout)
    \/ Since(startTime) > pickupTimeout

LimitByCountOnly == spiralAttempt > maxInteractions

(* A variant of the condition of lines 75-77 without the ceiling.          *)
LimitByClocksOnly ==
    \/ (waitingForInteraction # Zero /\ Since(waitingForInteraction) > pickupTimeout)
    \/ Since(startTime) > pickupTimeout

LimitReachedOnTheDot ==
    \/ spiralAttempt > maxInteractions
    \/ (waitingForInteraction # Zero /\ Since(waitingForInteraction) > pickupTimeout)
    \/ Since(startTime) >= pickupTimeout

(* The condition of lines 75-77.                                           *)
LimitReached ==
    \/ spiralAttempt > maxInteractions
    \/ (waitingForInteraction # Zero /\ Since(waitingForInteraction) > pickupTimeout)
    \/ Since(startTime) > pickupTimeout

(* A variant of the condition of line 82, tested with >=.                  *)
MonsterCheckAtInterval == Since(lastMonsterCheck) >= monsterCheckInterval

(* The condition of line 82.                                               *)
MonsterCheckDue == Since(lastMonsterCheck) > monsterCheckInterval

(* A variant of the condition of line 100 with a pixel more of tolerance.  *)
CursorMismatchLoose(actual, target) ==
    \/ abs(actual.X - target.X) > cursorTolerance + 1
    \/ abs(actual.Y - target.Y) > cursorTolerance + 1

(* The condition of line 100.                                              *)
CursorMismatch(actual, target) ==
    \/ abs(actual.X - target.X) > cursorTolerance
    \/ abs(actual.Y - target.Y) > cursorTolerance

----------------------------------------------------------------------------
(* The environment.                                                        *)

(* What a refresh can leave in ctx.Data: the snapshot it had, or, while the *)
(* environment's changes last, one in which one thing has changed: the     *)
(* player's position, the target (gone or back, moved, hover gained or     *)
(* lost) or the monsters.                                                  *)
OneChange(data, monsters) ==
    {d \in Snapshots({data.Mode}, monsters) :
        \/ /\ d.PlayerPos # data.PlayerPos
           /\ d.Ground = data.Ground
           /\ d.Monsters = data.Monsters
        \/ /\ d.PlayerPos = data.PlayerPos
           /\ d.Monsters = data.Monsters
           /\ d.Ground # data.Ground
           /\ (OnGround(data) /\ OnGround(d)) => ~(Moved(data, d) /\ Flipped(data, d))
        \/ /\ d.PlayerPos = data.PlayerPos
           /\ d.Ground = data.Ground
           /\ d.Monsters # data.Monsters}

Spent(e) == [e EXCEPT !.events = @ + 1]

Refreshed(data, e) ==
    {<<data, e>>} \cup
    IF e.events < e.maxEvents
    THEN {<<d, Spent(e)>> : d \in OneChange(data, e.monsters)}
    ELSE {}

(* Where the pointer is found after MovePointer(target): on it or beside  *)
(* it by up to 6 pixels; with a pointer gone astray, never within 5        *)
(* pixels of it.                                                           *)
CursorErrors == {Pos(5, -5), Pos(6, 0), Pos(0, -6)}
Shifted(target, d) == Pos(target.X + d.X, target.Y + d.Y)
Landed(target, e) ==
    IF e.astray
    THEN {<<Shifted(target, d), e>> : d \in {Pos(6, 0), Pos(0, -6)}}
    ELSE {<<target, e>>} \cup
         IF e.events < e.maxEvents
         THEN {<<Shifted(target, d), Spent(e)>> : d \in CursorErrors}
         ELSE {}

(* How long PauseIfNotPriority keeps the caller: no time, or PauseBlock.   *)
Paused(e) ==
    {<<0, e>>} \cup IF e.events < e.maxEvents THEN {<<PauseBlock, Spent(e)>>} ELSE {}

----------------------------------------------------------------------------
(* PickupItem, lines 33-136.                                               *)

NoPos == Pos(-1, -1)
Call(op, at) == [op |-> op, at |-> at]
(* The log of the iteration, which is empty again when the next begins.    *)
Logged(c, to) == IF to = "pause" THEN <<>> ELSE Append(calls, c)

Return(err) ==
    /\ pc' = "done"
    /\ result' = err

frame == <<it, startTime>>

(* Lines 34-44: the locals of the invocation.                              *)
Enter ==
    /\ pc = "call"
    /\ pc' = "pause"
    /\ startTime' = now
    /\ waitingForInteraction' = Zero
    /\ spiralAttempt' = 0
    /\ lastMonsterCheck' = now
    /\ initialPlayerPos' = Data.PlayerPos
    /\ base' = it.Position
    /\ baseScreen' = GameCoordsToScreenCords(Data, it.Position.X, it.Position.Y)
    /\ UNCHANGED <<result, failedAttempts, now, Data, cursor, it, currentItem,
                   targetCursor, clickAttempt, calls, moves, clicks, env>>

(* A variant of the loop head that leaves the pause check out.             *)
PauseSkipped ==
    /\ pc = "pause"
    /\ pc' = "refresh"
    /\ UNCHANGED <<result, failedAttempts, now, Data, cursor, waitingForInteraction,
                   spiralAttempt, lastMonsterCheck, initialPlayerPos, base,
                   baseScreen, currentItem, targetCursor, clickAttempt, calls, moves,
                   clicks, env, frame>>

(* Line 47: ctx.PauseIfNotPriority().                                      *)
Pause ==
    /\ pc = "pause"
    /\ pc' = "refresh"
    /\ \E p \in Paused(env) :
        /\ now' = now + p[1]
        /\ env' = p[2]
    /\ calls' = Logged(Call("PauseIfNotPriority", NoPos), pc')
    /\ UNCHANGED <<result, failedAttempts, Data, cursor, waitingForInteraction,
                   spiralAttempt, lastMonsterCheck, initialPlayerPos, base,
                   baseScreen, currentItem, targetCursor, clickAttempt, moves,
                   clicks, frame>>

(* A variant of the refresh that tests the limits of the attempt before it *)
(* looks the item up.                                                      *)
RefreshLimitsFirst ==
    /\ pc = "refresh"
    /\ \E r \in Refreshed(Data, env) :
        LET data == r[1]
            playerMoved == initialPlayerPos # data.PlayerPos
            screen1 == IF playerMoved
                       THEN GameCoordsToScreenCords(data, base.X, base.Y)
                       ELSE baseScreen
            found == findItemOnGround(data, it.UnitID)
            itemMoved == found.item.Position # base
        IN  /\ Data' = data
            /\ env' = r[2]
            /\ initialPlayerPos' = data.PlayerPos
            /\ currentItem' = found.item
            /\ IF LimitReached
               THEN /\ Return(ErrFailedToPickUp)
                    /\ base' = base
                    /\ baseScreen' = screen1
               ELSE IF ~found.exists
               THEN /\ Return("nil")
                    /\ base' = base
                    /\ baseScreen' = screen1
               ELSE /\ pc' = "limits"
                    /\ result' = result
                    /\ base' = found.item.Position
                    /\ baseScreen' =
                         IF itemMoved
                         THEN GameCoordsToScreenCords(data, found.item.Position.X,
                                                      found.item.Position.Y)
                         ELSE screen1
    /\ calls' = Logged(Call("RefreshGameData", NoPos), pc')
    /\ UNCHANGED <<failedAttempts, now, cursor, waitingForInteraction, spiralAttempt,
                   lastMonsterCheck, targetCursor, clickAttempt, moves, clicks, frame>>

(* A variant of the refresh that keeps the screen anchor when the player   *)
(* has moved.                                                              *)
RefreshKeepingAnchor ==
    /\ pc = "refresh"
    /\ \E r \in Refreshed(Data, env) :
        LET data == r[1]
            found == findItemOnGround(data, it.UnitID)
            itemMoved == found.item.Position # base
        IN  /\ Data' = data
            /\ env' = r[2]
            /\ initialPlayerPos' = data.PlayerPos
            /\ currentItem' = found.item
            /\ IF ~found.exists
               THEN /\ Return("nil")
                    /\ UNCHANGED <<base, baseScreen>>
               ELSE /\ pc' = "limits"
                    /\ result' = result
                    /\ base' = found.item.Position
                    /\ baseScreen' =
                         IF itemMoved
                         THEN GameCoordsToScreenCords(data, found.item.Position.X,
                                                      found.item.Position.Y)
                         ELSE baseScreen
    /\ calls' = Logged(Call("RefreshGameData", NoPos), pc')
    /\ UNCHANGED <<failedAttempts, now, cursor, waitingForInteraction, spiralAttempt,
                   lastMonsterCheck, targetCursor, clickAttempt, moves, clicks, frame>>

(* Lines 48-72: the refresh, the re-synchronisation with the player and    *)
(* the lookup of the item, which returns success when it finds nothing.    *)
Refresh ==
    /\ pc = "refresh"
    /\ \E r \in Refreshed(Data, env) :
        LET data == r[1]
            playerMoved == initialPlayerPos # data.PlayerPos
            screen1 == IF playerMoved
                       THEN GameCoordsToScreenCords(data, base.X, base.Y)
                       ELSE baseScreen
            found == findItemOnGround(data, it.UnitID)
            itemMoved == found.item.Position # base
        IN  /\ Data' = data
            /\ env' = r[2]
            /\ initialPlayerPos' = data.PlayerPos
            /\ currentItem' = found.item
            /\ IF ~found.exists
               THEN /\ Return("nil")
                    /\ base' = base
                    /\ baseScreen' = screen1
               ELSE /\ pc' = "limits"
                    /\ result' = result
                    /\ base' = found.item.Position
                    /\ baseScreen' =
                         IF itemMoved
                         THEN GameCoordsToScreenCords(data, found.item.Position.X,
                                                      found.item.Position.Y)
                         ELSE screen1
    /\ calls' = Logged(Call("RefreshGameData", NoPos), pc')
    /\ UNCHANGED <<failedAttempts, now, cursor, waitingForInteraction, spiralAttempt,
                   lastMonsterCheck, targetCursor, clickAttempt, moves, clicks, frame>>

(* Lines 74-87: the limits of the attempt, then the throttled threat      *)
(* check.                                                                  *)
CheckLimits ==
    /\ pc = "limits"
    /\ IF LimitReached
       THEN /\ Return(ErrFailedToPickUp)
            /\ failedAttempts' = spiralAttempt
            /\ UNCHANGED lastMonsterCheck
       ELSE /\ UNCHANGED failedAttempts
            /\ IF MonsterCheckDue
               THEN IF hasHostileMonstersNearby(Data, currentItem.Position)
                    THEN /\ Return(ErrMonsterAroundItem)
                         /\ UNCHANGED lastMonsterCheck
                    ELSE /\ pc' = "move"
                         /\ lastMonsterCheck' = now
                         /\ UNCHANGED result
               ELSE /\ pc' = "move"
                    /\ UNCHANGED <<result, lastMonsterCheck>>
    /\ UNCHANGED <<now, Data, cursor, waitingForInteraction, spiralAttempt,
                   initialPlayerPos, base, baseScreen, currentItem, targetCursor,
                   clickAttempt, calls, moves, clicks, env, frame>>

(* Lines 89-107: the probe of the spiral step, the settle delay and the    *)
(* check of where the pointer landed.                                      *)
MoveCursor ==
    /\ pc = "move"
    /\ now < ClockEnd
    /\ LET offset == ItemSpiral(spiralAttempt)
           target == Pos(baseScreen.X + offset.X, baseScreen.Y + offset.Y)
       IN  \E l \in Landed(target, env) :
            /\ targetCursor' = target
            /\ cursor' = l[1]
            /\ env' = l[2]
            /\ pc' = IF CursorMismatch(l[1], target) THEN "pause" ELSE "refresh2"
            /\ calls' = Logged(Call("MovePointer", target), pc')
    /\ now' = now + settleDelay
    /\ moves' = moves + 1
    /\ UNCHANGED <<result, failedAttempts, Data, waitingForInteraction, spiralAttempt,
                   lastMonsterCheck, initialPlayerPos, base, baseScreen, currentItem,
                   clickAttempt, clicks, frame>>

(* Line 112: the hover test that opens the burst of clicks.                *)
HoverConfirmed(data) == currentItem.IsHovered

(* Lines 109-112 and 134: the refresh after the probe and the hover test;  *)
(* without hover the step counter advances and the loop starts over.       *)
RefreshAfterMove ==
    /\ pc = "refresh2"
    /\ \E r \in Refreshed(Data, env) :
        /\ Data' = r[1]
        /\ env' = r[2]
        /\ IF HoverConfirmed(r[1])
           THEN /\ pc' = "verify"
                /\ clickAttempt' = 0
                /\ UNCHANGED spiralAttempt
           ELSE /\ pc' = "pause"
                /\ spiralAttempt' = spiralAttempt + 1
                /\ UNCHANGED clickAttempt
    /\ calls' = Logged(Call("RefreshGameData", NoPos), pc')
    /\ UNCHANGED <<result, failedAttempts, now, cursor, waitingForInteraction,
                   lastMonsterCheck, initialPlayerPos, base, baseScreen, currentItem,
                   targetCursor, moves, clicks, frame>>

(* Variants of the head of the click loop: one that allows a click more,   *)
(* one that starts the spiral over after a burst, one that stamps the      *)
(* hover wait after every burst.                                           *)
VerifyOneMore ==
    /\ pc = "verify"
    /\ IF /\ clickAttempt <= maxClickAttempts
          /\ verifyPickupConditions(Data, currentItem, initialPlayerPos)
       THEN /\ pc' = "click"
            /\ UNCHANGED <<waitingForInteraction, spiralAttempt, calls>>
       ELSE /\ pc' = "pause"
            /\ calls' = <<>>
            /\ waitingForInteraction' =
                 IF waitingForInteraction = Zero THEN now ELSE waitingForInteraction
            /\ spiralAttempt' = spiralAttempt + 1
    /\ UNCHANGED <<result, failedAttempts, now, Data, cursor, lastMonsterCheck,
                   initialPlayerPos, base, baseScreen, currentItem, targetCursor,
                   clickAttempt, moves, clicks, env, frame>>

VerifyResetting ==
    /\ pc = "verify"
    /\ IF /\ clickAttempt < maxClickAttempts
          /\ verifyPickupConditions(Data, currentItem, initialPlayerPos)
       THEN /\ pc' = "click"
            /\ UNCHANGED <<waitingForInteraction, spiralAttempt, calls>>
       ELSE /\ pc' = "pause"
            /\ calls' = <<>>
            /\ waitingForInteraction' =
                 IF waitingForInteraction = Zero THEN now ELSE waitingForInteraction
            /\ spiralAttempt' = 0
    /\ UNCHANGED <<result, failedAttempts, now, Data, cursor, lastMonsterCheck,
                   initialPlayerPos, base, baseScreen, currentItem, targetCursor,
                   clickAttempt, moves, clicks, env, frame>>

VerifyRestamping ==
    /\ pc = "verify"
    /\ IF /\ clickAttempt < maxClickAttempts
          /\ verifyPickupConditions(Data, currentItem, initialPlayerPos)
       THEN /\ pc' = "click"
            /\ UNCHANGED <<waitingForInteraction, spiralAttempt, calls>>
       ELSE /\ pc' = "pause"
            /\ calls' = <<>>
            /\ waitingForInteraction' = now
            /\ spiralAttempt' = spiralAttempt + 1
    /\ UNCHANGED <<result, failedAttempts, now, Data, cursor, lastMonsterCheck,
                   initialPlayerPos, base, baseScreen, currentItem, targetCursor,
                   clickAttempt, moves, clicks, env, frame>>

(* Lines 114-118 and 129-134: the head of the click loop with the          *)
(* validation before a click; when the loop ends or breaks, the hover-wait *)
(* timestamp is set if unset and the step counter advances.                *)
Verify ==
    /\ pc = "verify"
    /\ IF /\ clickAttempt < maxClickAttempts
          /\ verifyPickupConditions(Data, currentItem, initialPlayerPos)
       THEN /\ pc' = "click"
            /\ UNCHANGED <<waitingForInteraction, spiralAttempt, calls>>
       ELSE /\ pc' = "pause"
            /\ calls' = <<>>
            /\ waitingForInteraction' =
                 IF waitingForInteraction = Zero THEN now ELSE waitingForInteraction
            /\ spiralAttempt' = spiralAttempt + 1
    /\ UNCHANGED <<result, failedAttempts, now, Data, cursor, lastMonsterCheck,
                   initialPlayerPos, base, baseScreen, currentItem, targetCursor,
                   clickAttempt, moves, clicks, env, frame>>

(* A variant of the click that takes the item for picked up once it has   *)
(* clicked.                                                                *)
ClickTrusting ==
    /\ pc = "click"
    /\ clicks' = clicks + 1
    /\ now' = now + clickDelay
    /\ \E r \in Refreshed(Data, env) :
        /\ Data' = r[1]
        /\ env' = r[2]
    /\ Return("nil")
    /\ calls' = Logged(Call("Click", targetCursor), pc')
    /\ UNCHANGED <<failedAttempts, cursor, waitingForInteraction, spiralAttempt,
                   lastMonsterCheck, initialPlayerPos, base, baseScreen, currentItem,
                   targetCursor, clickAttempt, moves, frame>>

(* Lines 120-127: the click, the delay after it, during which the host's  *)
(* background refresh may replace the snapshot, and the lookup that        *)
(* returns success when it finds nothing.                                  *)
Click ==
    /\ pc = "click"
    /\ clicks' = clicks + 1
    /\ now' = now + clickDelay
    /\ \E r \in Refreshed(Data, env) :
        /\ Data' = r[1]
        /\ env' = r[2]
        /\ IF ~findItemOnGround(r[1], it.UnitID).exists
           THEN /\ Return("nil")
                /\ UNCHANGED clickAttempt
           ELSE /\ pc' = "verify"
                /\ clickAttempt' = clickAttempt + 1
                /\ UNCHANGED result
    /\ calls' = Logged(Call("Click", targetCursor), pc')
    /\ UNCHANGED <<failedAttempts, cursor, waitingForInteraction, spiralAttempt,
                   lastMonsterCheck, initialPlayerPos, base, baseScreen, currentItem,
                   targetCursor, moves, frame>>

Next ==
    \/ Enter
    \/ Pause
    \/ Refresh
    \/ CheckLimits
    \/ MoveCursor
    \/ RefreshAfterMove
    \/ Verify
    \/ Click

(* The state in which PickupItem is called: any snapshot of the given      *)
(* player modes and monsters; the argument is the item as the snapshot has *)
(* it, or as the caller last saw it when the snapshot has lost it.         *)
Called(modes, monsters, events) ==
    /\ pc = "call"
    /\ result = "none"
    /\ failedAttempts = -1
    /\ now = 0
    /\ Data \in Snapshots(modes, monsters)
    /\ cursor = NoPos
    /\ it \in [UnitID : {TargetID}, Position : ItemPositions]
    /\ \A i \in TargetIn(Data) : it.Position = i.Position
    /\ startTime = 0
    /\ waitingForInteraction = Zero
    /\ spiralAttempt = 0
    /\ lastMonsterCheck = 0
    /\ initialPlayerPos = Pos(0, 0)
    /\ base = Pos(0, 0)
    /\ baseScreen = Pos(0, 0)
    /\ currentItem = NoItem
    /\ targetCursor = NoPos
    /\ clickAttempt = 0
    /\ calls = <<>>
    /\ moves = 0
    /\ clicks = 0
    /\ env \in [events : {0}, maxEvents : {events}, monsters : {monsters},
                astray : BOOLEAN]

Init == Called({Idle}, MonsterSets, MaxEvents)

Spec == Init /\ [][Next]_vars

(* PauseIfNotPriority returns and the invocation keeps running.            *)
FairSpec == Spec /\ WF_vars(Next)

(* PickupItem called in any player mode, with any of the monster sets, in  *)
(* a world that stays as it is.                                            *)
CallSpec == Called(Modes, AllMonsterSets, 0) /\ [][Next]_vars

----------------------------------------------------------------------------
(* What the claims speak of.                                               *)

Returned(err) == pc = "done" /\ result = err
Ops == [i \in 1..Len(calls) |-> calls[i].op]
InIteration == pc \in {"refresh", "limits", "move", "refresh2", "verify", "click"}
(* No snapshot change, miss or block yet: ctx.Data is what it was at the call. *)
WorldAsCalled == env.events = 0

----------------------------------------------------------------------------
(* C1: PickupItem returns nil only in a state where the lookup of the      *)
(* target's unit id in the ground items of the current snapshot finds      *)
(* nothing, at the top of an iteration as well as after a click.           *)
SuccessOnlyWhenGone == Returned("nil") => ~OnGround(Data)

(* C1, witness: success returned by the lookup that follows a click.       *)
SuccessAfterClick ==
    /\ Returned("nil")
    /\ calls # <<>>
    /\ calls[Len(calls)].op = "Click"
    /\ ~OnGround(Data)

(* C2: when the first refresh of the invocation finds the target gone,     *)
(* that step returns nil with the step counter at 0 and no MovePointer or  *)
(* Click made.                                                             *)
GoneAtFirstRefresh ==
    [][(pc = "refresh" /\ moves = 0 /\ ~OnGround(Data'))
        => (Returned("nil")' /\ spiralAttempt' = 0 /\ moves' = 0 /\ clicks' = 0)]_vars

(* C2, witness: returned in the first iteration, after one pause and one   *)
(* refresh.                                                                *)
ReturnedInFirstIteration ==
    /\ Returned("nil")
    /\ spiralAttempt = 0
    /\ moves = 0
    /\ Ops = <<"PauseIfNotPriority", "RefreshGameData">>

(* C3: with a live monster within 4 of the item at the call and the item   *)
(* on the ground, no MovePointer is made and the return is                 *)
(* ErrMonsterAroundItem.                                                   *)
ThreatAtCallStopsProbe ==
    (/\ WorldAsCalled
     /\ OnGround(Data)
     /\ hasHostileMonstersNearby(Data, it.Position))
        => (moves = 0 /\ (pc = "done" => result = ErrMonsterAroundItem))

(* C4: called while the player casts or moves, PickupItem returns          *)
(* ErrCastingMoving with no refresh, pointer move or click made.           *)
BusyAtCallReturnsAtOnce ==
    (WorldAsCalled /\ OnGround(Data) /\ Data.Mode \in BusyModes)
        => /\ moves = 0
           /\ clicks = 0
           /\ \A i \in 1..Len(calls) : calls[i].op # "RefreshGameData"
           /\ pc = "done" => result = ErrCastingMoving

(* C5: called at distance 10 or more of the item, PickupItem returns       *)
(* ErrItemTooFar with no pointer move or click made.                       *)
FarAtCallReturnsTooFar ==
    (/\ WorldAsCalled
     /\ OnGround(Data)
     /\ DistanceFromPoint(Data.PlayerPos, it.Position) >= 10)
        => (moves = 0 /\ clicks = 0 /\ (pc = "done" => result = ErrItemTooFar))

(* The world of C6: as it was at the call, the item on the ground and not  *)
(* hovered, no live monster near it.                                       *)
QuietUnhovered ==
    /\ WorldAsCalled
    /\ OnGround(Data)
    /\ ~Hovered(Data)
    /\ ~hasHostileMonstersNearby(Data, it.Position)

(* C6 as claimed: in that world PickupItem returns the failure with an     *)
(* attempt count of maxInteractions.                                       *)
NeverHoveredFailsAtCeiling ==
    (QuietUnhovered /\ pc = "done")
        => (result = ErrFailedToPickUp /\ failedAttempts = maxInteractions)

(* C6, amended: in that world PickupItem returns the failure; the count is *)
(* maxInteractions + 1 when the pointer lands on target on every move and  *)
(* 0 when it never does; and whatever the world, a failure reports a count *)
(* of at most maxInteractions + 1, below it only when more than            *)
(* pickupTimeout has elapsed.                                              *)
NeverHoveredFailsPastCeiling ==
    /\ (QuietUnhovered /\ pc = "done")
        => /\ result = ErrFailedToPickUp
           /\ failedAttempts = IF env.astray THEN 0 ELSE maxInteractions + 1
    /\ Returned(ErrFailedToPickUp)
        => /\ failedAttempts \in 0..(maxInteractions + 1)
           /\ failedAttempts <= maxInteractions => now - startTime > pickupTimeout

(* C6, witness: the failure after 31 probes that all landed on target.     *)
FailedAfterAllProbes ==
    /\ QuietUnhovered
    /\ ~env.astray
    /\ Returned(ErrFailedToPickUp)
    /\ moves = maxInteractions + 1
    /\ clicks = 0

(* C7: in every iteration PauseIfNotPriority is the first call and the     *)
(* only pause, so every refresh, pointer move and click of the iteration   *)
(* comes after it; and a click is made only from a state in which the      *)
(* validation holds, the step before it being that validation.             *)
PauseComesFirst ==
    /\ [](/\ InIteration => calls # <<>>
          /\ calls # <<>> => calls[1].op = "PauseIfNotPriority"
          /\ \A i \in 2..Len(calls) : calls[i].op # "PauseIfNotPriority")
    /\ [][clicks' # clicks
            => /\ pc = "click"
               /\ verifyPickupConditions(Data, currentItem, initialPlayerPos)
               /\ Ops = <<"PauseIfNotPriority", "RefreshGameData", "MovePointer",
                          "RefreshGameData">> \o [i \in 1..clickAttempt |-> "Click"]]_vars

(* C7, witness: a second click of an iteration is about to be made.        *)
AboutToClickAgain ==
    /\ pc = "click"
    /\ clickAttempt = 1
    /\ Len(calls) = 5

(* C8: every invocation returns, with nil, ErrMonsterAroundItem or the     *)
(* failure, whatever the environment does.                                 *)
Termination ==
    <>(pc = "done" /\ result \in {"nil", ErrMonsterAroundItem, ErrFailedToPickUp})

(* C8, witness: returned with the pointer astray on every move, which only *)
(* the clock ends.                                                         *)
ReturnedWithPointerAstray ==
    /\ env.astray
    /\ Returned(ErrFailedToPickUp)
    /\ spiralAttempt = 0
    /\ moves > maxInteractions + 1

(* C9: at the limit check, where the item has been found on the ground,    *)
(* the failure is returned exactly when the step counter is above          *)
(* maxInteractions, or the hover-wait timestamp is set and more than       *)
(* pickupTimeout old, or more than pickupTimeout has elapsed since the     *)
(* start; it reports the step counter; otherwise the iteration goes on to  *)
(* the threat check and the probe; and the failure has no other origin.    *)
FailureExactlyAtLimits ==
    /\ [](pc = "limits" => OnGround(Data))
    /\ [][LET over == \/ spiralAttempt > maxInteractions
                      \/ (waitingForInteraction # Zero
                          /\ now - waitingForInteraction > pickupTimeout)
                      \/ now - startTime > pickupTimeout
          IN  /\ (pc = "limits" /\ over)
                  => (Returned(ErrFailedToPickUp)' /\ failedAttempts' = spiralAttempt)
              /\ (pc = "limits" /\ ~over)
                  => (pc' = "move" \/ Returned(ErrMonsterAroundItem)')
              /\ (result' = ErrFailedToPickUp /\ result # ErrFailedToPickUp)
                  => pc = "limits"]_vars

(* C9, witness: the failure returned on the clock alone, the step counter  *)
(* still within the ceiling.                                               *)
FailedOnTheClock ==
    /\ Returned(ErrFailedToPickUp)
    /\ failedAttempts <= maxInteractions
    /\ now - startTime > pickupTimeout
    /\ failedAttempts > 0

(* C10: after the probe, the burst of clicks is entered exactly when the   *)
(* item is hovered in the snapshot of the refresh that follows the         *)
(* pointer move.                                                           *)
HoverJudgedAfterMove ==
    [][pc = "refresh2" => ((pc' = "verify") <=> Hovered(Data'))]_vars

(* The four conditions of the validation, read from the current snapshot:  *)
(* the player where the invocation last saw it, the item on the ground,    *)
(* hovered, and where this iteration recorded it.                          *)
ValidNow ==
    /\ Data.PlayerPos = initialPlayerPos
    /\ \E i \in TargetIn(Data) : i.IsHovered /\ i.Position = base

(* C11: a click is made only from the state the validation has just passed *)
(* in, with the player where it was last seen and the item on the ground,  *)
(* hovered and at the position recorded in this iteration; a validation    *)
(* that fails ends the iteration with no further click.                    *)
ClickOnlyWhenValidated ==
    /\ [](pc = "click" => ValidNow)
    /\ [][/\ clicks' # clicks => (pc = "click" /\ ValidNow /\ clicks' = clicks + 1)
          /\ pc' = "click" => (pc = "verify" /\ Data' = Data)
          /\ (pc = "verify" /\ ~ValidNow) => (pc' = "pause" /\ clicks' = clicks)]_vars

(* C11, witness: after a click the item has lost its hover and the         *)
(* validation is about to fail.                                            *)
BurstAboutToBeAbandoned ==
    /\ pc = "verify"
    /\ clickAttempt = 1
    /\ OnGround(Data)
    /\ ~ValidNow

(* The clicks and pointer moves logged in the current iteration.           *)
ClicksLogged == {i \in 1..Len(calls) : calls[i].op = "Click"}
MovesLogged == {i \in 1..Len(calls) : calls[i].op = "MovePointer"}

(* C12: an iteration makes at most 3 clicks, each at the position of the   *)
(* one pointer move of the iteration, and a click after which the lookup   *)
(* finds the item gone returns nil at once.                                *)
BurstOfThreeAtProbe ==
    /\ [](/\ Cardinality(ClicksLogged) <= 3
          /\ \A i \in ClicksLogged :
                /\ Cardinality(MovesLogged) = 1
                /\ \A m \in MovesLogged : m < i /\ calls[i].at = calls[m].at)
    /\ [][pc = "click"
            => /\ clicks' = clicks + 1
               /\ IF OnGround(Data') THEN pc' = "verify" ELSE Returned("nil")']_vars

(* C12, witness: the third click of an iteration has left the item on the  *)
(* ground.                                                                 *)
ThreeClicksMade ==
    /\ pc = "verify"
    /\ Cardinality(ClicksLogged) = 3
    /\ OnGround(Data)

(* C13: the step counter never decreases and never returns to 0; a burst   *)
(* that ends by a failed validation or after its last click advances it by *)
(* exactly 1 and the next iteration probes at the next spiral index.       *)
CounterOnlyAdvances ==
    [][/\ spiralAttempt' >= spiralAttempt
       /\ spiralAttempt' = 0 => spiralAttempt = 0
       /\ (pc = "verify" /\ pc' # "click")
            => (pc' = "pause" /\ spiralAttempt' = spiralAttempt + 1 /\ result' = "none")
       /\ pc = "move"
            => LET offset == ItemSpiral(spiralAttempt)
               IN  targetCursor' = Pos(baseScreen.X + offset.X, baseScreen.Y + offset.Y)]_vars

(* C13, witness: a burst has used its three clicks and the next iteration  *)
(* is at its probe with the counter at 1.                                  *)
ProbingAfterFullBurst ==
    /\ pc = "move"
    /\ clicks = 3
    /\ spiralAttempt = 1


(* The projection of the target's position in the current snapshot, for   *)
(* the player position of that snapshot.                                   *)
Anchored(screen) ==
    \E i \in TargetIn(Data) :
        screen = GameCoordsToScreenCords(Data, i.Position.X, i.Position.Y)

(* C14: from the lookup to the probe the screen anchor is the projection   *)
(* of the item's position in the snapshot just refreshed, for the player   *)
(* position of that snapshot, and the cached position is the item's; the   *)
(* pointer is moved to that anchor plus the spiral offset.                 *)
AnchorFollowsSnapshot ==
    /\ [](pc \in {"limits", "move"}
            => /\ Anchored(baseScreen)
               /\ \A i \in TargetIn(Data) : base = i.Position
               /\ initialPlayerPos = Data.PlayerPos)
    /\ [][moves' # moves
            => LET offset == ItemSpiral(spiralAttempt)
               IN  Anchored(Pos(targetCursor'.X - offset.X, targetCursor'.Y - offset.Y))]_vars

(* C14, witness: a probe is about to be made, after earlier ones, at an    *)
(* item that is no longer where the caller saw it.                         *)
AnchorReprojected ==
    /\ pc = "move"
    /\ moves > 0
    /\ base # it.Position
    /\ Anchored(baseScreen)

(* C15: at the threat check of an iteration, which follows the limit check, *)
(* the check is evaluated exactly when more than 1 second has passed since *)
(* the last evaluation or the entry; an evaluation that finds a threat     *)
(* returns ErrMonsterAroundItem before any pointer move or click of the    *)
(* iteration, one that finds none stamps the time; the timestamp and the   *)
(* error have no other origin.                                             *)
ThreatCheckThrottled ==
    [][/\ (pc = "limits" /\ ~LimitReached)
            => IF now - lastMonsterCheck > Second
               THEN IF hasHostileMonstersNearby(Data, currentItem.Position)
                    THEN Returned(ErrMonsterAroundItem)' /\ lastMonsterCheck' = lastMonsterCheck
                    ELSE pc' = "move" /\ lastMonsterCheck' = now
               ELSE pc' = "move" /\ lastMonsterCheck' = lastMonsterCheck /\ result' = "none"
       /\ lastMonsterCheck' # lastMonsterCheck => pc \in {"call", "limits"}
       /\ (result' = ErrMonsterAroundItem /\ result # ErrMonsterAroundItem)
            => /\ pc = "limits"
               /\ MovesLogged = {}
               /\ ClicksLogged = {}
               /\ moves' = moves]_vars

(* C15, witness: a threat found by a check that followed an earlier check  *)
(* by more than the interval.                                              *)
ThreatFoundAtLaterCheck ==
    /\ Returned(ErrMonsterAroundItem)
    /\ lastMonsterCheck > startTime
    /\ now - lastMonsterCheck > Second

(* C16: the threat check on a position is true exactly when a monster of   *)
(* the snapshot has life above 0 and is at distance 4 or less of it, for   *)
(* every position an item can have and at the check the loop evaluates.    *)
ThreatIsLiveAndNear ==
    /\ [](\A p \in ItemPositions :
            hasHostileMonstersNearby(Data, p)
                <=> \E m \in Data.Monsters :
                        m.Life > 0 /\ DistanceFromPoint(p, m.Position) <= 4)
    /\ [][(pc = "limits" /\ ~LimitReached /\ now - lastMonsterCheck > Second)
            => (Returned(ErrMonsterAroundItem)'
                    <=> \E m \in Data.Monsters :
                            /\ m.Life > 0
                            /\ DistanceFromPoint(currentItem.Position, m.Position) <= 4)]_vars

(* C16, witness: a check was evaluated and let the loop go on with a dead  *)
(* monster beside the item and a live one at distance 5 of it.             *)
CorpseAndFarIgnored ==
    /\ pc = "move"
    /\ lastMonsterCheck > startTime
    /\ \E m \in Data.Monsters :
        m.Life <= 0 /\ DistanceFromPoint(currentItem.Position, m.Position) <= 4
    /\ \E m \in Data.Monsters :
        m.Life > 0 /\ DistanceFromPoint(currentItem.Position, m.Position) = 5

(* The pointer read back more than 5 pixels from its target on an axis.    *)
OffTarget(actual, target) ==
    \/ actual.X - target.X > 5
    \/ target.X - actual.X > 5
    \/ actual.Y - target.Y > 5
    \/ target.Y - actual.Y > 5

(* C17 as claimed: an invocation whose pointer lands off target on every   *)
(* move ends with the failure.                                             *)
AstrayEndsInFailure ==
    (env.astray /\ moves > 0 /\ pc = "done") => result = ErrFailedToPickUp

(* C17, amended: a probe whose pointer is read back off target makes no    *)
(* click, returns nothing and leaves the step counter as it is, and the    *)
(* loop starts over; an invocation whose pointer lands off target on       *)
(* every move returns without a click and with the counter at 0: nil with  *)
(* the item gone, ErrMonsterAroundItem with a threat at the item, and      *)
(* otherwise, as always when the world stays as it was without a threat,   *)
(* the failure with a count of 0 after more than pickupTimeout.            *)
OffTargetRetriesUntilReturn ==
    /\ [][(pc = "move" /\ OffTarget(cursor', targetCursor'))
            => /\ pc' = "pause"
               /\ clicks' = clicks
               /\ result' = "none"
               /\ spiralAttempt' = spiralAttempt]_vars
    /\ []((env.astray /\ pc = "done")
            => /\ clicks = 0
               /\ spiralAttempt = 0
               /\ result \in {"nil", ErrMonsterAroundItem, ErrFailedToPickUp}
               /\ result = "nil" => ~OnGround(Data)
               /\ result = ErrMonsterAroundItem
                    => hasHostileMonstersNearby(Data, currentItem.Position)
               /\ result = ErrFailedToPickUp
                    => (failedAttempts = 0 /\ now - startTime > pickupTimeout)
               /\ (WorldAsCalled /\ OnGround(Data)
                   /\ ~hasHostileMonstersNearby(Data, it.Position))
                    => result = ErrFailedToPickUp)
    /\ (env.astray ~> pc = "done")

(* C17, witness: the pointer landed off target on every move and the       *)
(* invocation was ended by the threat check.                               *)
AstrayEndedByThreat ==
    /\ env.astray
    /\ moves > 0
    /\ OffTarget(cursor, targetCursor)
    /\ Returned(ErrMonsterAroundItem)

(* C18: the step counter is within 0..maxInteractions + 1 in every state   *)
(* and within 0..maxInteractions wherever a probe is made with it.         *)
CounterWithinCeiling ==
    /\ [](/\ spiralAttempt \in 0..31
          /\ pc \in {"move", "refresh2", "verify", "click"} => spiralAttempt \in 0..30)
    /\ [][moves' # moves
            => /\ spiralAttempt \in 0..30
               /\ \E i \in 0..30 :
                    LET offset == ItemSpiral(i)
                    IN  targetCursor' = Pos(baseScreen.X + offset.X,
                                            baseScreen.Y + offset.Y)]_vars

(* C18, witness: the limit check is reached with the counter at 31, after  *)
(* the probe of index 30.                                                  *)
AtCeilingAfterLastProbe ==
    /\ pc = "limits"
    /\ spiralAttempt = maxInteractions + 1
    /\ moves >= maxInteractions + 1

(* C19: a refresh at the top of an iteration that finds the item gone      *)
(* returns nil whatever the step counter and the clocks are; the failure   *)
(* and ErrMonsterAroundItem are returned only with the item on the ground. *)
SuccessBeforeLimits ==
    /\ [](result \in {ErrFailedToPickUp, ErrMonsterAroundItem} => OnGround(Data))
    /\ [][(pc = "refresh" /\ ~OnGround(Data'))
            => (Returned("nil")' /\ failedAttempts' = -1)]_vars

(* C19, witness: nil returned at the top of an iteration with the step     *)
(* counter above the ceiling.                                              *)
SuccessPastCeiling ==
    /\ Returned("nil")
    /\ Len(calls) = 2
    /\ spiralAttempt > maxInteractions

(* C20: the hover-wait timestamp is unset until a burst has ended; it is   *)
(* set, to the time of that moment, only when a burst ends without a       *)
(* return and it is unset; once set it never changes.                      *)
HoverWaitSetOnce ==
    /\ [](clicks = 0 /\ pc \in {"call", "pause", "refresh", "limits", "move", "refresh2"}
            /\ spiralAttempt = 0 => waitingForInteraction = Zero)
    /\ [][/\ waitingForInteraction' # waitingForInteraction
            => /\ pc = "verify"
               /\ pc' = "pause"
               /\ waitingForInteraction = Zero
               /\ waitingForInteraction' = now
          /\ (pc = "verify" /\ pc' = "pause") => waitingForInteraction' # Zero]_vars

(* C20, witness: a second burst has ended and the timestamp is still that  *)
(* of the first.                                                           *)
SecondBurstKeepsStamp ==
    /\ pc = "pause"
    /\ clicks = 6
    /\ spiralAttempt = 2
    /\ waitingForInteraction # Zero
    /\ now - waitingForInteraction >= 3 * clickDelay

====
